---------------------------- MODULE Spec2Model ----------------------------
(***************************************************************************)
(* A model of the OHP point-of-sale payment backend (src/server.js, the    *)
(* current revision at lines 163-469): start-up configuration, the         *)
(* admission pipeline on /api (authentication, rate limiting, idempotency  *)
(* header), the four payment routes and the client address extractor.      *)
(*                                                                         *)
(* JavaScript strings are modelled as sequences of one-character strings,  *)
(* so that trimming, splitting and slicing are computed and not assumed.   *)
(* The value undefined is the one-element sequence Undefined, whose        *)
(* element is not a character.                                             *)
(***************************************************************************)
EXTENDS Integers, Sequences, FiniteSets, TLC

VARIABLES
    env,                \* process.env as read by the program
    proc,               \* "boot", "listening" or "exited"
    exitCode,           \* the process's exit status once exited, else -1
    ENV,                \* the operating mode resolved at start
    STRIPE_SECRET_KEY,  \* the secret key resolved at start
    STRIPE_TERMINAL_ID, \* the physical reader resolved at start
    SINGLE_API_KEY,     \* the single shared secret
    MULTI_KEYS,         \* the set of shared secrets
    limit,              \* the limiter's requests-per-window limit
    hits,               \* the limiter's store: client key -> hits in its window
    arrivals,           \* history: client key -> its requests to /api in that window
    tasks,              \* the charge requests suspended at a processor call
    stripe,             \* the payment processor: idempotency keys seen, intents processed
    last,               \* the request completed most recently, with its response
    ipReq,              \* the forwarding header and socket address of a request
    ipKey               \* what getClientIp returned for ipReq

vars == <<env, proc, exitCode, ENV, STRIPE_SECRET_KEY, STRIPE_TERMINAL_ID,
          SINGLE_API_KEY, MULTI_KEYS, limit, hits, arrivals, tasks, stripe,
          last, ipReq, ipKey>>

---------------------------------------------------------------------------
(* JavaScript values and string operations *)

Undefined == <<"undefined">>
Null == <<"null">>

\* !v for a string, undefined or null
Falsy(v) == v = Undefined \/ v = Null \/ v = <<>>

\* a || b
Or(a, b) == IF Falsy(a) THEN b ELSE a

Digit == {"0", "1", "2", "3", "4", "5", "6", "7", "8", "9"}
HexDigit == Digit \cup {"a", "b", "c", "d", "e", "f", "A", "B", "C", "D", "E", "F"}
WhiteSpace == {" ", "\n", "\t"}

DigitVal(c) ==
    CASE c = "0" -> 0 [] c = "1" -> 1 [] c = "2" -> 2 [] c = "3" -> 3
      [] c = "4" -> 4 [] c = "5" -> 5 [] c = "6" -> 6 [] c = "7" -> 7
      [] c = "8" -> 8 [] c = "9" -> 9

\* String.prototype.indexOf(c) for a one-character c: 0-based, -1 when absent
IndexOf(s, c) ==
    IF \E i \in 1..Len(s) : s[i] = c
    THEN (CHOOSE i \in 1..Len(s) : s[i] = c /\ \A j \in 1..(i - 1) : s[j] # c) - 1
    ELSE -1

\* String.prototype.lastIndexOf(c)
LastIndexOf(s, c) ==
    IF \E i \in 1..Len(s) : s[i] = c
    THEN (CHOOSE i \in 1..Len(s) : s[i] = c /\ \A j \in (i + 1)..Len(s) : s[j] # c) - 1
    ELSE -1

\* String.prototype.slice(from, to) for 0 <= from, to
Slice(s, from, to) == SubSeq(s, from + 1, IF to > Len(s) THEN Len(s) ELSE to)

SliceFrom(s, from) == SubSeq(s, from + 1, Len(s))

StartsWith(s, p) == Len(s) >= Len(p) /\ SubSeq(s, 1, Len(p)) = p

RECURSIVE TrimStart(_)
TrimStart(s) ==
    IF s # <<>> /\ Head(s) \in WhiteSpace THEN TrimStart(Tail(s)) ELSE s

RECURSIVE TrimEnd(_)
TrimEnd(s) ==
    IF s # <<>> /\ s[Len(s)] \in WhiteSpace
    THEN TrimEnd(SubSeq(s, 1, Len(s) - 1)) ELSE s

\* String.prototype.trim
Trim(s) == TrimEnd(TrimStart(s))

\* String.prototype.split(c) for a one-character c
RECURSIVE Split(_, _)
Split(s, c) ==
    LET i == IndexOf(s, c)
    IN  IF i = -1 THEN <<s>>
        ELSE <<Slice(s, 0, i)>> \o Split(SliceFrom(s, i + 1), c)

\* /^\d+$/.test(s)
AllDigits(s) == s # <<>> /\ \A i \in 1..Len(s) : s[i] \in Digit

---------------------------------------------------------------------------
(* net.isIP: the textual forms of an IPv4 and an IPv6 address *)

\* One decimal octet: 0..255 without a leading zero
IsV4Seg(p) ==
    /\ Len(p) \in 1..3
    /\ \A i \in 1..Len(p) : p[i] \in Digit
    /\ (Len(p) > 1 => p[1] # "0")
    /\ (Len(p) = 3 => 100 * DigitVal(p[1]) + 10 * DigitVal(p[2]) + DigitVal(p[3]) <= 255)

IsIPv4(s) ==
    LET parts == Split(s, ".")
    IN  Len(parts) = 4 /\ \A i \in 1..4 : IsV4Seg(parts[i])

\* One group of an IPv6 address: one to four hexadecimal digits
IsV6Seg(p) == Len(p) \in 1..4 /\ \A i \in 1..Len(p) : p[i] \in HexDigit

\* The number of 16-bit groups a colon-separated list stands for, or -1 when it
\* is malformed; only the last element may be a dotted IPv4 address (two groups).
V6Groups(parts, v4Last) ==
    IF \A i \in 1..Len(parts) :
           \/ IsV6Seg(parts[i])
           \/ (v4Last /\ i = Len(parts) /\ IsIPv4(parts[i]))
    THEN Len(parts) + (IF Len(parts) > 0 /\ ~IsV6Seg(parts[Len(parts)]) THEN 1 ELSE 0)
    ELSE -1

\* The 0-based index of the first "::", or -1
DoubleColon(s) ==
    IF \E i \in 1..(Len(s) - 1) : s[i] = ":" /\ s[i + 1] = ":"
    THEN (CHOOSE i \in 1..(Len(s) - 1) :
              /\ s[i] = ":" /\ s[i + 1] = ":"
              /\ \A j \in 1..(i - 1) : ~(s[j] = ":" /\ s[j + 1] = ":")) - 1
    ELSE -1

Lower == {"a", "b", "c", "d", "e", "f", "g", "h", "i", "j", "k", "l", "m",
          "n", "o", "p", "q", "r", "s", "t", "u", "v", "w", "x", "y", "z"}
Upper == {"A", "B", "C", "D", "E", "F", "G", "H", "I", "J", "K", "L", "M",
          "N", "O", "P", "Q", "R", "S", "T", "U", "V", "W", "X", "Y", "Z"}

\* The characters of a zone identifier after "%"
ZoneChar == Digit \cup Lower \cup Upper \cup {"-", ".", ":"}

IsIPv6(s) ==
    LET z    == IndexOf(s, "%")
        body == IF z = -1 THEN s ELSE Slice(s, 0, z)
        zone == IF z = -1 THEN <<>> ELSE SliceFrom(s, z + 1)
        dc   == DoubleColon(body)
        lft  == IF dc <= 0 THEN <<>> ELSE Split(Slice(body, 0, dc), ":")
        rgtS == SliceFrom(body, dc + 2)
        rgt  == IF rgtS = <<>> THEN <<>> ELSE Split(rgtS, ":")
    IN  /\ (z # -1 => zone # <<>> /\ \A i \in 1..Len(zone) : zone[i] \in ZoneChar)
        /\ IF dc = -1
           THEN V6Groups(Split(body, ":"), TRUE) = 8
           ELSE /\ V6Groups(lft, FALSE) >= 0
                /\ V6Groups(rgt, TRUE) >= 0
                /\ V6Groups(lft, FALSE) + V6Groups(rgt, TRUE) <= 7

\* net.isIP(s) # 0
isIP(s) == IsIPv4(s) \/ IsIPv6(s)

---------------------------------------------------------------------------
(* The client address extractor *)

\* req.ip under app.set("trust proxy", 1): the last address of the forwarding
\* header when there is one, else the socket's address.
ReqIp(xff, ra) ==
    IF Falsy(xff) THEN ra
    ELSE LET parts == Split(xff, ",") IN Trim(parts[Len(parts)])

\* The ":port" and bracket cleaning of the forwarding token
CleanToken(t0) ==
    LET t1 == IF StartsWith(t0, <<"[">>) /\ IndexOf(t0, "]") # -1
              THEN Slice(t0, 1, IndexOf(t0, "]")) ELSE t0
        lastColon == LastIndexOf(t1, ":")
        t2 == IF lastColon # -1 /\ AllDigits(SliceFrom(t1, lastColon + 1))
              THEN Slice(t1, 0, lastColon) ELSE t1
    IN  IF StartsWith(t2, <<":", ":", "f", "f", "f", "f", ":">>) THEN SliceFrom(t2, 7) ELSE t2

\* The same cleaning applied to socket.remoteAddress
CleanRemote(r0) ==
    LET r1 == IF StartsWith(r0, <<"[">>) /\ IndexOf(r0, "]") # -1
              THEN Slice(r0, 1, IndexOf(r0, "]")) ELSE r0
        lc == LastIndexOf(r1, ":")
        r2 == IF lc # -1 /\ AllDigits(SliceFrom(r1, lc + 1))
              THEN Slice(r1, 0, lc) ELSE r1
    IN  IF StartsWith(r2, <<":", ":", "f", "f", "f", "f", ":">>) THEN SliceFrom(r2, 7) ELSE r2

Unknown == <<"u", "n", "k", "n", "o", "w", "n">>

getClientIp(xff, ra) ==
    LET header == Or(Or(xff, ReqIp(xff, ra)), <<>>)
        token  == CleanToken(Trim(Split(header, ",")[1]))
        rem    == CleanRemote(Or(ra, <<>>))
    IN  IF ~isIP(token) /\ isIP(rem) THEN rem
        ELSE Or(token, Unknown)

---------------------------------------------------------------------------
(* Bounds of the model *)

\* Requests from one client counted in one window before the window must expire
MaxHits == 3

\* Charge requests suspended at a processor call at the same time
MaxInFlight == 2

---------------------------------------------------------------------------
(* Start-up: the module's top-level statements *)

Prod == <<"p", "r", "o", "d">>
Test == <<"t", "e", "s", "t">>
True == <<"t", "r", "u", "e">>

\* const ENV = process.env.STRIPE_ENV || "test"
ResolveEnv(e) == Or(e.STRIPE_ENV, Test)

\* A start-up that reads the test key whatever the mode
MutResolveSecretKey(e) == e.STRIPE_SECRET_KEY_TEST

\* const STRIPE_SECRET_KEY = ENV === "prod" ? ..._PROD : ..._TEST
ResolveSecretKey(e) ==
    IF ResolveEnv(e) = Prod THEN e.STRIPE_SECRET_KEY_PROD ELSE e.STRIPE_SECRET_KEY_TEST

\* const STRIPE_TERMINAL_ID = ENV === "prod" ? process.env.STRIPE_TERMINAL_ID_PROD : null
ResolveTerminalId(e) ==
    IF ResolveEnv(e) = Prod THEN e.STRIPE_TERMINAL_ID_PROD ELSE Null

\* The separators of POS_BACKEND_KEYS: /[\n,\s,]+/
KeySeparator == WhiteSpace \cup {","}

RECURSIVE DropSeparators(_)
DropSeparators(s) ==
    IF s # <<>> /\ Head(s) \in KeySeparator THEN DropSeparators(Tail(s)) ELSE s

\* String.prototype.split(/[\n,\s,]+/): the pieces between maximal runs of separators
RECURSIVE SplitKeys(_)
SplitKeys(s) ==
    IF \E i \in 1..Len(s) : s[i] \in KeySeparator
    THEN LET i == CHOOSE i \in 1..Len(s) :
                      s[i] \in KeySeparator /\ \A j \in 1..(i - 1) : s[j] \notin KeySeparator
         IN  <<SubSeq(s, 1, i - 1)>> \o SplitKeys(DropSeparators(SubSeq(s, i, Len(s))))
    ELSE <<s>>

\* const SINGLE_API_KEY = (process.env.POS_BACKEND_KEY || "").trim()
ResolveSingleKey(e) == Trim(Or(e.POS_BACKEND_KEY, <<>>))

\* const MULTI_KEYS = new Set(RAW.split(...).map(s => s.trim()).filter(Boolean))
ResolveMultiKeys(e) ==
    LET pieces == SplitKeys(Or(e.POS_BACKEND_KEYS, <<>>))
    IN  {Trim(pieces[i]) : i \in 1..Len(pieces)} \ {<<>>}

\* Number(s) for a string of decimal digits
RECURSIVE ParseNumber(_)
ParseNumber(s) ==
    IF s = <<>> THEN 0
    ELSE 10 * ParseNumber(SubSeq(s, 1, Len(s) - 1)) + DigitVal(s[Len(s)])

DefaultLimit == 60

\* limit: Number(process.env.RATE_LIMIT_PER_MINUTE || 60)
ResolveLimit(e) ==
    IF Falsy(e.RATE_LIMIT_PER_MINUTE) THEN DefaultLimit
    ELSE ParseNumber(e.RATE_LIMIT_PER_MINUTE)

---------------------------------------------------------------------------
(* Requests, responses and the processor *)

ApiPaths == {"/api/payments", "/api/terminal/connection_token",
             "/api/terminal/charge", "/api/payment_intents/:id"}

\* app.use("/api", ...): the middleware runs for the paths under /api
Mounted(path) == path \in ApiPaths

\* The two network origins requests come from: directly, and through a proxy
\* that names the client in X-Forwarded-For
Direct  == [xff |-> Undefined,
            ra  |-> <<":", ":", "f", "f", "f", "f", ":", "1", ".", "1", ".", "1", ".", "1">>]
Proxied == [xff |-> <<"2", ".", "2", ".", "2", ".", "2", ":", "8", "0", ",", " ", "9", ".", "9", ".", "9", ".", "9">>,
            ra  |-> <<":", ":", "f", "f", "f", "f", ":", "1", ".", "1", ".", "1", ".", "1">>]
Origins == {Direct, Proxied}

\* keyGenerator: (req) => getClientIp(req), for the requests of those origins
ClientOf == [o \in Origins |-> getClientIp(o.xff, o.ra)]
keyGenerator(r) == ClientOf[[xff |-> r.xff, ra |-> r.ra]]

\* The limiter keys those origins map to
Clients == {ClientOf[o] : o \in Origins}

\* The payment intents that exist at the processor
P1 == <<"p", "i", "1">>
P2 == <<"p", "i", "2">>
Intents == {P1, P2}

Slots == 1..MaxInFlight
Idle == [pc |-> "idle"]
NoResponse == [stage |-> "none"]

\* What the processor answers to a create, a token or a retrieve call
IntentStatus == {"requires_payment_method", "processing", "succeeded"}
ChargeStatus == {"none", "pending", "failed", "succeeded"}
Failure == [ok |-> FALSE, status |-> "", charge |-> "none"]
Created == [ok |-> TRUE, status |-> "requires_payment_method", charge |-> "none"]
Retrieved == [ok : {TRUE}, status : IntentStatus, charge : ChargeStatus]

Outcomes(r) ==
    IF r.method = "GET" /\ r.path = "/api/payment_intents/:id"
    THEN Retrieved \cup {Failure}
    ELSE {Created, Failure}

---------------------------------------------------------------------------
(* The middleware in front of the admission pipeline *)

\* app.use(cors()): a preflight request is answered by the CORS middleware
CorsEnds(r) == r.method = "OPTIONS"

\* app.use(express.json()): a body that does not parse ends the request
JsonFails(r) == ~r.json

---------------------------------------------------------------------------
(* The admission pipeline *)

\* A key check that accepts any non-empty value
MutHasValidKey(value) == ~Falsy(value)

hasValidKey(value) ==
    IF Falsy(value) THEN FALSE
    ELSE IF ~Falsy(SINGLE_API_KEY) /\ value = SINGLE_API_KEY THEN TRUE
    ELSE IF MULTI_KEYS # {} /\ value \in MULTI_KEYS THEN TRUE
    ELSE FALSE

\* A configuration check with the size test the wrong way round
MutNotConfigured == Falsy(SINGLE_API_KEY) /\ MULTI_KEYS # {}

\* !SINGLE_API_KEY && MULTI_KEYS.size === 0
NotConfigured == Falsy(SINGLE_API_KEY) /\ MULTI_KEYS = {}

\* req.header("x-api-key") || req.header("x-device-key")
Presented(r) == Or(r.apiKey, r.devKey)

\* authMiddleware: the status it ends the request with, or 0 for next()
authMiddleware(r) ==
    IF NotConfigured THEN 500
    ELSE IF ~hasValidKey(Presented(r)) THEN 401
    ELSE 0

\* A limiter that rejects the request that reaches the limit
MutLimited(totalHits) == totalHits >= limit

\* limiter: the request is rejected when its hit exceeds the limit
Limited(totalHits) == totalHits > limit

\* An idempotency check that compares the method in the wrong case
MutIdemMissing(r) == r.method = "post" /\ Falsy(r.idem)

\* The idempotency middleware: a POST without the Idempotency-Key header
IdemMissing(r) == r.method = "POST" /\ Falsy(r.idem)

\* A limiter mounted ahead of the authentication: it counts every /api request
MutReachesLimiter(r) ==
    /\ ~CorsEnds(r) /\ ~JsonFails(r)
    /\ Mounted(r.path)

\* The request gets as far as the limiter
ReachesLimiter(r) ==
    /\ ~CorsEnds(r) /\ ~JsonFails(r)
    /\ Mounted(r.path)
    /\ authMiddleware(r) = 0

---------------------------------------------------------------------------
(* The route handlers *)

Out(stage, status, body, calls) ==
    [stage |-> stage, status |-> status, body |-> body, calls |-> calls]

\* POST /api/payments
CreatePaymentIntent(r, o) ==
    IF Falsy(r.amount) \/ r.amount = <<"0">> \/ Falsy(r.currency)
    THEN Out("handler", 400, [error |-> "Amount and currency are required."], <<>>)
    ELSE LET calls == <<[op |-> "paymentIntents.create"]>>
         IN  IF o.ok
             THEN Out("handler", 200, [id |-> <<"p", "i", "0">>, status |-> o.status], calls)
             ELSE Out("handler", 500, [error |-> "processor"], calls)

\* POST /api/terminal/connection_token
CreateConnectionToken(r, o) ==
    LET calls == <<[op |-> "terminal.connectionTokens.create"]>>
    IN  IF o.ok
        THEN Out("handler", 200, [secret |-> "pst"], calls)
        ELSE Out("handler", 500, [error |-> "processor"], calls)

\* An effective status that reports the intent's own status only
MutEffectiveStatus(intentStatus, chargeStatus) == intentStatus

\* (intent.status === 'succeeded' || lc?.status === 'succeeded') ? 'succeeded' : intent.status
EffectiveStatus(intentStatus, chargeStatus) ==
    IF intentStatus = "succeeded" \/ chargeStatus = "succeeded"
    THEN "succeeded" ELSE intentStatus

\* GET /api/payment_intents/:id
GetPaymentIntent(r, o) ==
    LET calls == <<[op |-> "paymentIntents.retrieve", pi |-> r.pid]>>
    IN  IF o.ok
        THEN Out("handler", 200,
                 [id |-> r.pid,
                  status |-> o.status,
                  effective_status |-> EffectiveStatus(o.status, o.charge),
                  latest_charge_status |-> o.charge],
                 calls)
        ELSE Out("handler", 500, [error |-> "processor"], calls)

\* A charge handler without the check of the configured reader
MutNoReader == FALSE

\* ENV === "prod" and !STRIPE_TERMINAL_ID
NoReader == ENV = Prod /\ Falsy(STRIPE_TERMINAL_ID)

\* `pi-process-${payment_intent_id}`
IdempotencyKey(pid) ==
    <<"p", "i", "-", "p", "r", "o", "c", "e", "s", "s", "-">>
        \o (IF pid = Undefined THEN <<"u", "n", "d", "e", "f", "i", "n", "e", "d">> ELSE pid)

\* A process call whose idempotency key is derived from the reader
MutProcessCall(reader, pid) ==
    [op |-> "terminal.readers.processPaymentIntent", reader |-> reader, pi |-> pid,
     key |-> IdempotencyKey(reader)]

\* stripe.terminal.readers.processPaymentIntent(readerId, {payment_intent}, {idempotencyKey})
ProcessCall(reader, pid) ==
    [op |-> "terminal.readers.processPaymentIntent", reader |-> reader, pi |-> pid,
     key |-> IdempotencyKey(pid)]

CreateReaderCall == [op |-> "terminal.readers.create"]

PresentCall(reader) ==
    [op |-> "testHelpers.terminal.readers.presentPaymentMethod", reader |-> reader]

\* POST /api/terminal/charge up to its first processor call: either the response,
\* or the call the request is suspended at
ProcessOnReader(r) ==
    IF NoReader
    THEN Out("handler", 400, [error |-> "Missing STRIPE_TERMINAL_ID_PROD for production mode"], <<>>)
    ELSE IF ENV = Prod
    THEN [stage |-> "suspended", pc |-> "process", reader |-> STRIPE_TERMINAL_ID,
          calls |-> <<ProcessCall(STRIPE_TERMINAL_ID, r.pid)>>]
    ELSE [stage |-> "suspended", pc |-> "create_reader", reader |-> Undefined,
          calls |-> <<CreateReaderCall>>]

\* The route table
Route(r, o) ==
    CASE r.method = "POST" /\ r.path = "/api/payments" -> CreatePaymentIntent(r, o)
      [] r.method = "POST" /\ r.path = "/api/terminal/connection_token" -> CreateConnectionToken(r, o)
      [] r.method = "POST" /\ r.path = "/api/terminal/charge" -> ProcessOnReader(r)
      [] r.method = "GET" /\ r.path = "/api/payment_intents/:id" -> GetPaymentIntent(r, o)
      [] r.method = "GET" /\ r.path = "/health" ->
             Out("handler", 200, [ok |-> TRUE, mode |-> ENV], <<>>)
      [] OTHER -> Out("router", 404, [error |-> "Not Found"], <<>>)

\* The whole chain of app.use and routes for one request, given the hit the
\* limiter counts for it
Pipeline(r, o, totalHits) ==
    IF CorsEnds(r) THEN Out("cors", 204, [empty |-> TRUE], <<>>)
    ELSE IF JsonFails(r) THEN Out("json", 400, [error |-> "Unexpected token"], <<>>)
    ELSE IF ~Mounted(r.path) THEN Route(r, o)
    ELSE IF authMiddleware(r) = 500
    THEN Out("auth", 500,
             [error |-> "Server not configured: missing POS_BACKEND_KEY or POS_BACKEND_KEYS"], <<>>)
    ELSE IF authMiddleware(r) = 401 THEN Out("auth", 401, [error |-> "Unauthorized"], <<>>)
    ELSE IF Limited(totalHits)
    THEN Out("limiter", 429, [error |-> "Too many requests, please try again later."], <<>>)
    ELSE IF IdemMissing(r)
    THEN Out("idempotency", 400, [error |-> "Missing Idempotency-Key header"], <<>>)
    ELSE Route(r, o)

---------------------------------------------------------------------------
(* The payment processor, as far as the program relies on it: a process call
   whose idempotency key it has seen is not processed again *)

Seen(call) == {e \in stripe.idem : e.key = call.key}

\* The answers the processor can give to a process call
ProcessAnswers(call) ==
    IF Seen(call) # {}
    THEN {"error"} \cup
         (IF \E e \in Seen(call) : e.reader = call.reader /\ e.pi = call.pi
          THEN {"replayed"} ELSE {})
    ELSE {"error"} \cup (IF call.pi \in Intents THEN {"processed"} ELSE {})

\* The processor after answering
Processor(call, answer) ==
    IF answer = "processed"
    THEN [idem |-> stripe.idem \cup {[key |-> call.key, reader |-> call.reader, pi |-> call.pi]},
          processed |-> [stripe.processed EXCEPT ![call.pi] = @ + 1]]
    ELSE stripe

DigitChar(n) ==
    CASE n = 0 -> "0" [] n = 1 -> "1" [] n = 2 -> "2" [] n = 3 -> "3" [] n = 4 -> "4"
      [] n = 5 -> "5" [] n = 6 -> "6" [] n = 7 -> "7" [] n = 8 -> "8" [] n = 9 -> "9"

SimulatedReader(n) == <<"s", "i", "m", DigitChar(n)>>

\* The readers the model still refers to
ReadersInUse ==
    {tasks[s].reader : s \in {x \in Slots : tasks[x].pc # "idle"}}
        \cup {e.reader : e \in stripe.idem}

\* reader.id of a newly registered simulated reader: an identifier not in use
NewReader ==
    SimulatedReader(CHOOSE n \in 1..9 :
        /\ SimulatedReader(n) \notin ReadersInUse
        /\ \A m \in 1..(n - 1) : SimulatedReader(m) \in ReadersInUse)

---------------------------------------------------------------------------
(* Actions *)

\* The top-level statements of the module, to app.listen or process.exit(1)
Startup ==
    /\ proc = "boot"
    /\ ENV' = ResolveEnv(env)
    /\ STRIPE_SECRET_KEY' = ResolveSecretKey(env)
    /\ IF Falsy(ResolveSecretKey(env))
       THEN /\ proc' = "exited"
            /\ exitCode' = 1
            /\ UNCHANGED <<STRIPE_TERMINAL_ID, SINGLE_API_KEY, MULTI_KEYS, limit>>
       ELSE /\ proc' = "listening"
            /\ STRIPE_TERMINAL_ID' = ResolveTerminalId(env)
            /\ SINGLE_API_KEY' = ResolveSingleKey(env)
            /\ MULTI_KEYS' = ResolveMultiKeys(env)
            /\ limit' = ResolveLimit(env)
            /\ UNCHANGED exitCode
    /\ UNCHANGED <<env, hits, arrivals, tasks, stripe, last, ipReq, ipKey>>

\* The response to request r; answer is what the processor answered last
Response(r, out, answer) ==
    [req |-> r, stage |-> out.stage, status |-> out.status, body |-> out.body,
     calls |-> out.calls, answer |-> answer]

\* The request gets as far as its route
ReachesRoute(r, totalHits) ==
    IF Mounted(r.path)
    THEN ReachesLimiter(r) /\ ~Limited(totalHits) /\ ~IdemMissing(r)
    ELSE ~CorsEnds(r) /\ ~JsonFails(r)

\* One request through the middleware chain and its route, up to its response or
\* to the first processor call of a charge
Receive(r) ==
    /\ proc = "listening"
    /\ LET k      == keyGenerator(r)
           api    == Mounted(r.path)
           counts == ReachesLimiter(r)
           hit    == IF counts THEN hits[k] + 1 ELSE 0
       IN  /\ api => arrivals[k] < MaxHits
           /\ hits' = IF counts THEN [hits EXCEPT ![k] = hit] ELSE hits
           /\ arrivals' = IF api THEN [arrivals EXCEPT ![k] = @ + 1] ELSE arrivals
           /\ \E o \in IF ReachesRoute(r, hit) THEN Outcomes(r) ELSE {Failure} :
                 LET out == Pipeline(r, o, hit)
                 IN  IF out.stage = "suspended"
                     THEN /\ \E s \in Slots :
                               /\ tasks[s].pc = "idle"
                               /\ \A x \in 1..(s - 1) : tasks[x].pc # "idle"
                               /\ tasks' = [tasks EXCEPT ![s] =
                                      [pc |-> out.pc, req |-> r, reader |-> out.reader,
                                       calls |-> out.calls]]
                          /\ UNCHANGED last
                     ELSE /\ last' = Response(r, out, o)
                          /\ UNCHANGED tasks
    /\ UNCHANGED <<env, proc, exitCode, ENV, STRIPE_SECRET_KEY, STRIPE_TERMINAL_ID,
                   SINGLE_API_KEY, MULTI_KEYS, limit, stripe, ipReq, ipKey>>

\* The response a suspended charge request ends with
Finish(s, status, body, ok) ==
    /\ last' = Response(tasks[s].req, Out("handler", status, body, tasks[s].calls),
                        IF ok THEN Created ELSE Failure)
    /\ tasks' = [tasks EXCEPT ![s] = Idle]

\* stripe.terminal.readers.create returns or throws
ReaderCreated(s, ok) ==
    /\ tasks[s].pc = "create_reader"
    /\ IF ok
       THEN /\ tasks' = [tasks EXCEPT ![s].pc = "process",
                                      ![s].reader = NewReader,
                                      ![s].calls = @ \o <<ProcessCall(NewReader, tasks[s].req.pid)>>]
            /\ UNCHANGED last
       ELSE Finish(s, 500, [error |-> "processor"], FALSE)
    /\ UNCHANGED <<env, proc, exitCode, ENV, STRIPE_SECRET_KEY, STRIPE_TERMINAL_ID,
                   SINGLE_API_KEY, MULTI_KEYS, limit, hits, arrivals, stripe, ipReq, ipKey>>

\* process.env.STRIPE_SIMULATE_CARD === "true", in test mode
SimulateCard == ENV # Prod /\ env.STRIPE_SIMULATE_CARD = True

\* The reader-processing result the processor returns
Processed(call) == [id |-> call.reader, action |-> call.pi]

\* stripe.terminal.readers.processPaymentIntent returns or throws
ProcessReturns(s, answer) ==
    /\ tasks[s].pc = "process"
    /\ LET call == tasks[s].calls[Len(tasks[s].calls)]
       IN  /\ answer \in ProcessAnswers(call)
           /\ stripe' = Processor(call, answer)
           /\ IF answer = "error"
              THEN Finish(s, 500, [error |-> "processor"], FALSE)
              ELSE IF SimulateCard
              THEN /\ tasks' = [tasks EXCEPT ![s].pc = "simulate",
                                             ![s].calls = @ \o <<PresentCall(tasks[s].reader)>>]
                   /\ UNCHANGED last
              ELSE Finish(s, 200, [reader |-> Processed(call)], TRUE)
    /\ UNCHANGED <<env, proc, exitCode, ENV, STRIPE_SECRET_KEY, STRIPE_TERMINAL_ID,
                   SINGLE_API_KEY, MULTI_KEYS, limit, hits, arrivals, ipReq, ipKey>>

\* A handler whose simulation failure reaches the outer catch
MutSimulationStatus(ok) == IF ok THEN 200 ELSE 500

\* The inner try/catch: the status after the card simulation returned or threw
SimulationStatus(ok) == 200

\* testHelpers.terminal.readers.presentPaymentMethod returns or throws
SimulateReturns(s, ok) ==
    /\ tasks[s].pc = "simulate"
    /\ LET call == tasks[s].calls[Len(tasks[s].calls) - 1]
       IN  IF SimulationStatus(ok) = 200
           THEN Finish(s, 200, [reader |-> Processed(call)], ok)
           ELSE Finish(s, 500, [error |-> "processor"], ok)
    /\ UNCHANGED <<env, proc, exitCode, ENV, STRIPE_SECRET_KEY, STRIPE_TERMINAL_ID,
                   SINGLE_API_KEY, MULTI_KEYS, limit, hits, arrivals, stripe, ipReq, ipKey>>

\* windowMs: the window of client k runs out and the store drops its count
WindowExpire(k) ==
    /\ arrivals[k] > 0
    /\ hits' = [hits EXCEPT ![k] = 0]
    /\ arrivals' = [arrivals EXCEPT ![k] = 0]
    /\ UNCHANGED <<env, proc, exitCode, ENV, STRIPE_SECRET_KEY, STRIPE_TERMINAL_ID,
                   SINGLE_API_KEY, MULTI_KEYS, limit, tasks, stripe, last, ipReq, ipKey>>

\* The key generator on the request ipReq
ExtractClientIp ==
    /\ ipKey = Undefined
    /\ ipKey' = getClientIp(ipReq.xff, ipReq.ra)
    /\ UNCHANGED <<env, proc, exitCode, ENV, STRIPE_SECRET_KEY, STRIPE_TERMINAL_ID,
                   SINGLE_API_KEY, MULTI_KEYS, limit, hits, arrivals, tasks, stripe,
                   last, ipReq>>

\* Another request reaches the key generator
NextRequest(q) ==
    /\ ipKey # Undefined
    /\ ipReq' = q
    /\ ipKey' = Undefined
    /\ UNCHANGED <<env, proc, exitCode, ENV, STRIPE_SECRET_KEY, STRIPE_TERMINAL_ID,
                   SINGLE_API_KEY, MULTI_KEYS, limit, hits, arrivals, tasks, stripe, last>>

---------------------------------------------------------------------------
(* Environments and requests the specifications draw from *)

KeyA == <<"a">>
KeyB == <<"b">>
KeyC == <<"c">>
KeyX == <<"x">>
SecretTest == <<"s", "k", "_", "t", "e", "s", "t">>
SecretLive == <<"s", "k", "_", "l", "i", "v", "e">>
Terminal == <<"t", "m", "r">>

Env(mode, keyProd, keyTest, terminal, single, multi, rate, simulate) ==
    [STRIPE_ENV |-> mode, STRIPE_SECRET_KEY_PROD |-> keyProd,
     STRIPE_SECRET_KEY_TEST |-> keyTest, STRIPE_TERMINAL_ID_PROD |-> terminal,
     POS_BACKEND_KEY |-> single, POS_BACKEND_KEYS |-> multi,
     RATE_LIMIT_PER_MINUTE |-> rate, STRIPE_SIMULATE_CARD |-> simulate]

\* Test mode with every configuration of the shared secrets
GateEnvs ==
    {Env(Undefined, Undefined, SecretTest, Undefined, single, multi, <<"2">>, Undefined) :
        single \in {Undefined, <<" ">>, <<" ", "a", " ">>},
        multi \in {Undefined, <<",", " ">>, <<"b", ",", "\n", " ", "c">>}}

\* One shared secret with every configuration of the limit
LimiterEnvs ==
    {Env(Undefined, Undefined, SecretTest, Undefined, KeyA, Undefined, rate, Undefined) :
        rate \in {Undefined, <<>>, <<"1">>, <<"2">>}}

\* One shared secret with the configurations of the processor: test mode with
\* and without its secret key and the card simulation, production mode with and
\* without its secret key and its reader
ChargeEnvs ==
    {Env(Undefined, Undefined, keyTest, Undefined, KeyA, Undefined, Undefined, simulate) :
        keyTest \in {Undefined, SecretTest}, simulate \in {Undefined, True}}
    \cup {Env(Prod, keyProd, SecretTest, terminal, KeyA, Undefined, Undefined, True) :
        keyProd \in {Undefined, <<>>, SecretLive}, terminal \in {Undefined, Terminal}}

Req(method, path, json, apiKey, devKey, idem, origin, pid, amount, currency) ==
    [method |-> method, path |-> path, json |-> json, apiKey |-> apiKey,
     devKey |-> devKey, idem |-> idem, xff |-> origin.xff, ra |-> origin.ra,
     pid |-> pid, amount |-> amount, currency |-> currency]

Usd == <<"u", "s", "d">>
Amount == <<"5", "0", "0">>
IdemToken == <<"k">>

\* Requests with every combination of the credential headers, with and without
\* the idempotency header; preflight and unparseable requests; the other routes
GateRequests ==
    {Req(method, "/api/payments", TRUE, apiKey, devKey, idem, Direct, Undefined, Amount, Usd) :
        method \in {"GET", "POST"},
        apiKey \in {Undefined, <<>>, KeyA, KeyX},
        devKey \in {Undefined, KeyB, KeyX},
        idem \in {Undefined, IdemToken}}
    \cup {Req("POST", "/api/payments", TRUE, KeyA, Undefined, IdemToken, Direct, Undefined, amount, Usd) :
        amount \in {Undefined, <<"0">>}}
    \cup {Req("OPTIONS", "/api/payments", TRUE, apiKey, Undefined, Undefined, Direct, Undefined, Amount, Usd) :
        apiKey \in {Undefined, KeyA}}
    \cup {Req("POST", "/api/payments", FALSE, apiKey, Undefined, idem, Direct, Undefined, Amount, Usd) :
        apiKey \in {Undefined, KeyA}, idem \in {Undefined, IdemToken}}
    \cup {Req("GET", "/api/payment_intents/:id", TRUE, apiKey, Undefined, Undefined, Direct, P1, Undefined, Undefined) :
        apiKey \in {Undefined, KeyA}}
    \cup {Req("POST", "/api/terminal/connection_token", TRUE, apiKey, Undefined, IdemToken, Direct, Undefined, Undefined, Undefined) :
        apiKey \in {Undefined, KeyA}}
    \cup {Req("GET", "/health", TRUE, Undefined, Undefined, Undefined, Direct, Undefined, Undefined, Undefined)}

\* Requests with and without a credential, from both origins
LimiterRequests ==
    {Req("GET", "/api/payment_intents/:id", TRUE, apiKey, Undefined, Undefined, origin, P1, Undefined, Undefined) :
        apiKey \in {Undefined, KeyA}, origin \in Origins}
    \cup {Req("POST", "/api/payments", TRUE, apiKey, Undefined, IdemToken, origin, Undefined, Amount, Usd) :
        apiKey \in {Undefined, KeyA}, origin \in Origins}
    \cup {Req("GET", "/health", TRUE, Undefined, Undefined, Undefined, Direct, Undefined, Undefined, Undefined)}

\* Charge requests for an intent and for none, and one without the
\* idempotency header
ChargeRequests ==
    {Req("POST", "/api/terminal/charge", TRUE, KeyA, Undefined, IdemToken, Direct, pid, Undefined, Undefined) :
        pid \in {Undefined, P1}}
    \cup {Req("POST", "/api/terminal/charge", TRUE, KeyA, Undefined, Undefined, Direct, P1, Undefined, Undefined)}

\* Forwarding headers and socket addresses for the address extractor
ForwardedSamples ==
    {Undefined, <<>>,
     <<"2", "0", "3", ".", "0", ".", "1", "1", "3", ".", "7", ":", "5", "4", "3", "2", "1", ",", " ", "1", "0", ".", "0", ".", "0", ".", "1">>,
     <<":", ":", "f", "f", "f", "f", ":", "2", "0", "3", ".", "0", ".", "1", "1", "3", ".", "7">>,
     <<"g", "a", "r", "b", "a", "g", "e">>,
     <<"[", "2", "0", "0", "1", ":", "d", "b", "8", ":", ":", "a", "]", ":", "4", "4", "3">>,
     <<"2", "0", "0", "1", ":", "d", "b", "8", ":", ":", "1", "0">>,
     <<"2", "0", "0", "1", ":", "d", "b", "8", ":", ":", "a">>,
     <<"2", "5", "6", ".", "1", ".", "1", ".", "1">>,
     <<" ", ",", " ", "1", ".", "2", ".", "3", ".", "4">>,
     <<"1", ".", "2", ".", "3", ".", "4", ":", "8", "0">>,
     <<"u", "n", "k", "n", "o", "w", "n">>}

RemoteSamples ==
    {Undefined,
     <<"1", "0", ".", "0", ".", "0", ".", "9">>,
     <<":", ":", "f", "f", "f", "f", ":", "1", "0", ".", "0", ".", "0", ".", "9">>,
     <<":", ":", "1">>,
     <<"f", "e", "8", "0", ":", ":", "a", "b", "%", "e", "t", "h", "0">>,
     <<"2", "0", "0", "1", ":", "d", "b", "8", ":", ":", "2", "5">>}

IpRequests == [xff : ForwardedSamples, ra : RemoteSamples]

---------------------------------------------------------------------------
(* Specifications *)

\* The process before its first statement, with environment e
Boot(e) ==
    /\ env = e
    /\ proc = "boot"
    /\ exitCode = -1
    /\ ENV = Undefined
    /\ STRIPE_SECRET_KEY = Undefined
    /\ STRIPE_TERMINAL_ID = Undefined
    /\ SINGLE_API_KEY = <<>>
    /\ MULTI_KEYS = {}
    /\ limit = 0
    /\ hits = [k \in Clients |-> 0]
    /\ arrivals = [k \in Clients |-> 0]
    /\ tasks = [s \in Slots |-> Idle]
    /\ stripe = [idem |-> {}, processed |-> [i \in Intents |-> 0]]
    /\ last = NoResponse
    /\ ipReq = [xff |-> Undefined, ra |-> Undefined]
    /\ ipKey = Undefined

\* The admission pipeline and the routes that answer in one step, under every
\* configuration of the shared secrets
Init == \E e \in GateEnvs : Boot(e)

Next ==
    \/ Startup
    \/ \E r \in GateRequests : Receive(r)
    \/ \E k \in Clients : WindowExpire(k)

Spec == Init /\ [][Next]_vars

\* The limiter under every configuration of the limit, with two clients
InitLimiter == \E e \in LimiterEnvs : Boot(e)

NextLimiter ==
    \/ Startup
    \/ \E r \in LimiterRequests : Receive(r)
    \/ \E k \in Clients : WindowExpire(k)

SpecLimiter == InitLimiter /\ [][NextLimiter]_vars

\* The charge route under the configurations of the processor
InitCharge == \E e \in ChargeEnvs : Boot(e)

NextCharge ==
    \/ Startup
    \/ \E r \in ChargeRequests : Receive(r)
    \/ \E s \in Slots : \E ok \in BOOLEAN : ReaderCreated(s, ok)
    \/ \E s \in Slots : \E a \in {"processed", "replayed", "error"} : ProcessReturns(s, a)
    \/ \E s \in Slots : \E ok \in BOOLEAN : SimulateReturns(s, ok)
    \/ \E k \in Clients : WindowExpire(k)

SpecCharge == InitCharge /\ [][NextCharge]_vars

\* The address extractor on every sample request
InitIp ==
    /\ Boot(Env(Undefined, Undefined, SecretTest, Undefined, KeyA, Undefined, Undefined, Undefined))

NextIp ==
    \/ ExtractClientIp
    \/ \E q \in IpRequests : NextRequest(q)

SpecIp == InitIp /\ [][NextIp]_vars

---------------------------------------------------------------------------
(* What the claims speak of *)

\* A request has been answered
Done == last.stage # "none"

\* The shared secrets in force
ConfiguredKeys ==
    (IF SINGLE_API_KEY = <<>> THEN {} ELSE {SINGLE_API_KEY}) \cup MULTI_KEYS

\* The request carries a configured secret in x-api-key or in x-device-key
PresentsValidCredential(r) ==
    r.apiKey \in ConfiguredKeys \/ r.devKey \in ConfiguredKeys

\* The environment value has a character that is not one of blanks
HasText(v, blanks) == v # Undefined /\ \E i \in 1..Len(v) : v[i] \notin blanks

\* Neither POS_BACKEND_KEY nor POS_BACKEND_KEYS holds a secret
NoSecretConfigured ==
    /\ ~HasText(env.POS_BACKEND_KEY, WhiteSpace)
    /\ ~HasText(env.POS_BACKEND_KEYS, KeySeparator)

\* The status of a request that the CORS middleware or the body parser ends, or
\* otherwise the status given
UnlessEndedEarlier(r, status) ==
    IF r.method = "OPTIONS" THEN 204 ELSE IF ~r.json THEN 400 ELSE status

\* The processor calls of the requests in flight and of the last response
CallsOf(cs) == {cs[i] : i \in 1..Len(cs)}
CallsInFlight == UNION {CallsOf(tasks[s].calls) : s \in {x \in Slots : tasks[x].pc # "idle"}}
CallsMade == CallsInFlight \cup (IF Done THEN CallsOf(last.calls) ELSE {})

IsProcessCall(c) == c.op = "terminal.readers.processPaymentIntent"
IsPresentCall(c) == c.op = "testHelpers.terminal.readers.presentPaymentMethod"

---------------------------------------------------------------------------
(* C1 *)

\* C1 as stated: every request to an /api route without a valid credential is
\* answered 401, under every configuration of the shared secrets, and makes no
\* processor call.
C1_Original ==
    (Done /\ Mounted(last.req.path) /\ ~PresentsValidCredential(last.req))
        => (last.status = 401 /\ last.calls = <<>>)

\* C1 amended: a request to an /api route without a valid credential makes no
\* processor call; it is answered 401 when a shared secret is configured and 500
\* when none is, unless it is a preflight request (204) or its body does not
\* parse (400), which end before authentication.
C1_NoAccessWithoutCredential ==
    /\ (Done /\ Mounted(last.req.path) /\ ~PresentsValidCredential(last.req))
           => /\ last.calls = <<>>
              /\ last.status = UnlessEndedEarlier(last.req,
                                   IF ConfiguredKeys = {} THEN 500 ELSE 401)
    /\ \A s \in Slots : tasks[s].pc # "idle" => PresentsValidCredential(tasks[s].req)

\* A request presenting a wrong secret in both headers was answered 401
C1_Witness ==
    /\ Done /\ Mounted(last.req.path)
    /\ last.req.apiKey = KeyX /\ last.req.devKey = KeyX
    /\ ConfiguredKeys # {}
    /\ last.status = 401 /\ last.calls = <<>>

---------------------------------------------------------------------------
(* C2 *)

\* C2 as stated: every POST to an /api route without the Idempotency-Key header
\* is answered 400, whatever its credential and its client's hit count, and
\* makes no processor call.
C2_Original ==
    (Done /\ Mounted(last.req.path) /\ last.req.method = "POST" /\ Falsy(last.req.idem))
        => (last.status = 400 /\ last.calls = <<>>)

\* C2 amended: a POST to an /api route without the Idempotency-Key header makes
\* no processor call and never reaches a route; it is answered 400 unless
\* authentication (500, 401) or the limiter (429) rejects it first.
C2_NoRouteWithoutIdempotencyKey ==
    (Done /\ Mounted(last.req.path) /\ last.req.method = "POST" /\ Falsy(last.req.idem))
        => /\ last.calls = <<>>
           /\ last.stage \in {"json", "auth", "limiter", "idempotency"}
           /\ (last.stage \in {"json", "idempotency"} => last.status = 400)
           /\ (last.stage = "auth" =>
                  /\ last.status = (IF ConfiguredKeys = {} THEN 500 ELSE 401)
                  /\ ~hasValidKey(Presented(last.req)))
           /\ (last.stage = "limiter" => last.status = 429)

\* A POST with a valid credential and no Idempotency-Key was answered 400 by the
\* idempotency middleware
C2_Witness ==
    /\ Done /\ Mounted(last.req.path) /\ last.req.method = "POST"
    /\ last.req.idem = Undefined /\ last.req.apiKey = KeyA
    /\ last.stage = "idempotency" /\ last.status = 400

---------------------------------------------------------------------------
(* C3 *)

\* C3 as stated: of the requests of one client to /api routes in one window,
\* the N-th is not rejected by the limiter and the (N+1)-th is answered 429.
C3_Original ==
    [][\A k \in Clients :
          arrivals'[k] = arrivals[k] + 1 =>
              /\ (arrivals'[k] = limit + 1 => last'.status = 429)
              /\ (arrivals'[k] = limit => last'.status # 429)]_vars

\* C3 amended: of the requests of one client that passed authentication in one
\* window, the N-th and those before it are not rejected by the limiter, every
\* later one is answered 429 without reaching a route or the processor, and
\* when the window expires the client's count starts again from zero.
C3_LimitPerWindow ==
    [][\A k \in Clients :
          /\ hits'[k] = hits[k] + 1 =>
                IF hits'[k] > limit
                THEN /\ last'.stage = "limiter" /\ last'.status = 429
                     /\ last'.calls = <<>>
                     /\ keyGenerator(last'.req) = k
                     /\ UNCHANGED <<tasks, stripe>>
                ELSE \/ tasks' # tasks
                     \/ /\ last'.stage \in {"idempotency", "handler", "router"}
                        /\ last'.status # 429
                        /\ keyGenerator(last'.req) = k
          /\ hits'[k] # hits[k] => (hits'[k] = hits[k] + 1 \/ hits'[k] = 0)]_vars

\* The request after the N-th of a client was answered 429
C3_Witness ==
    /\ Done /\ last.status = 429
    /\ hits[keyGenerator(last.req)] = limit + 1

---------------------------------------------------------------------------
(* C4 *)

\* C4 as stated: with no shared secret configured every request to an /api
\* route is answered 500 and reaches neither the limiter, a route nor the
\* processor.
C4_Original ==
    (Done /\ Mounted(last.req.path) /\ NoSecretConfigured)
        => /\ last.status = 500 /\ last.stage = "auth" /\ last.calls = <<>>
           /\ \A k \in Clients : hits[k] = 0

\* C4 amended: with no shared secret configured, no request to an /api route
\* reaches the limiter, a route or the processor, whatever it presents; each is
\* answered 500, unless it is a preflight request (204) or its body does not
\* parse (400), which end before authentication.
C4_NeverOpenAccess ==
    NoSecretConfigured =>
        /\ \A k \in Clients : hits[k] = 0
        /\ \A s \in Slots : tasks[s].pc = "idle"
        /\ (Done /\ Mounted(last.req.path)) =>
               /\ last.calls = <<>>
               /\ last.stage \in {"cors", "json", "auth"}
               /\ last.status = UnlessEndedEarlier(last.req, 500)

\* With blank secrets, a request presenting a key was answered 500
C4_Witness ==
    /\ NoSecretConfigured
    /\ env.POS_BACKEND_KEY = <<" ">> /\ env.POS_BACKEND_KEYS = <<",", " ">>
    /\ Done /\ Mounted(last.req.path) /\ last.req.apiKey = KeyA
    /\ last.status = 500

---------------------------------------------------------------------------
(* C5 *)

\* The secret key the environment holds for the mode it selects
KeyForMode == IF env.STRIPE_ENV = Prod THEN env.STRIPE_SECRET_KEY_PROD
              ELSE env.STRIPE_SECRET_KEY_TEST

\* The process has accepted a request
Serving == Done \/ \E s \in Slots : tasks[s].pc # "idle"

\* C5: when the secret key for the selected mode is absent or empty the process
\* exits with a non-zero code without serving any request; while the process
\* listens or serves, the key for its mode is non-empty and the mode and key in
\* force are the ones resolved from the environment at start-up.
C5_KeyPresentWhileServing ==
    /\ (proc # "boot" /\ Falsy(KeyForMode)) =>
           (proc = "exited" /\ exitCode > 0 /\ ~Serving /\ CallsMade = {})
    /\ (proc = "listening" \/ Serving) =>
           /\ ~Falsy(KeyForMode)
           /\ STRIPE_SECRET_KEY = KeyForMode
           /\ (ENV = Prod) = (env.STRIPE_ENV = Prod)
           /\ exitCode = -1

\* Production mode with an empty production key and a test key present: the
\* process has exited with code 1
C5_Witness ==
    /\ env.STRIPE_ENV = Prod
    /\ env.STRIPE_SECRET_KEY_PROD = <<>>
    /\ env.STRIPE_SECRET_KEY_TEST = SecretTest
    /\ proc = "exited" /\ exitCode = 1

---------------------------------------------------------------------------
(* C6 *)

\* The process calls issued and the process calls the processor has recorded
ProcessCalls == {c \in CallsMade : IsProcessCall(c)}

\* C6: all process calls for one payment intent carry the same idempotency key,
\* in test and in production mode, so that the processor processes a payment
\* intent at most once however often its charge is requested.
C6_OneProcessingPerIntent ==
    /\ \A c \in ProcessCalls : \A d \in ProcessCalls \cup stripe.idem :
           (c.pi = d.pi) => (c.key = d.key)
    /\ \A c \in ProcessCalls : \A d \in ProcessCalls \cup stripe.idem :
           (c.key = d.key) => (c.pi = d.pi)
    /\ \A i \in Intents : stripe.processed[i] <= 1

\* A second charge of a processed intent, on another reader, went to the
\* processor with the recorded key and was not processed again
C6_Witness ==
    /\ Done /\ stripe.processed[P1] = 1
    /\ \E c \in CallsOf(last.calls) : \E e \in stripe.idem :
           /\ IsProcessCall(c) /\ c.pi = P1 /\ e.pi = P1
           /\ c.key = e.key /\ c.reader # e.reader

---------------------------------------------------------------------------
(* C7 *)

\* Production mode without a reader identifier in the environment
ProdWithoutReader ==
    env.STRIPE_ENV = Prod /\ Falsy(env.STRIPE_TERMINAL_ID_PROD)

\* C7: in production mode without a configured reader identifier every charge
\* request that is admitted is answered 400 and no processor call is made.
C7_NoChargeWithoutReader ==
    ProdWithoutReader =>
        /\ CallsMade = {}
        /\ stripe.idem = {}
        /\ \A s \in Slots : tasks[s].pc = "idle"
        /\ (Done /\ last.req.path = "/api/terminal/charge" /\ last.stage = "handler")
               => last.status = 400

\* An admitted charge request in production mode without a reader was
\* answered 400
C7_Witness ==
    /\ ProdWithoutReader /\ proc = "listening"
    /\ Done /\ last.req.path = "/api/terminal/charge" /\ last.stage = "handler"
    /\ last.status = 400 /\ last.calls = <<>>

---------------------------------------------------------------------------
(* C8 *)

\* C8: the extractor returns a syntactically valid IP address or "unknown" for
\* every request; when the cleaned first forwarded token is not valid it
\* returns the cleaned socket address if that is valid and "unknown" otherwise.
C8_AlwaysValidOrUnknown ==
    ipKey # Undefined =>
        LET header == IF Falsy(ipReq.xff) THEN ReqIp(ipReq.xff, ipReq.ra) ELSE ipReq.xff
            token  == CleanToken(Trim(Split(Or(header, <<>>), ",")[1]))
            rem    == CleanRemote(Or(ipReq.ra, <<>>))
        IN  /\ isIP(ipKey) \/ ipKey = Unknown
            /\ ~isIP(token) => ipKey = (IF isIP(rem) THEN rem ELSE Unknown)

---------------------------------------------------------------------------
(* C9 *)

\* The process call of the last response
LastProcessCall == CHOOSE c \in CallsOf(last.calls) : IsProcessCall(c)

\* C9: a charge request whose card presentation was simulated is answered 200
\* with the reader-processing result whether the simulation succeeded or
\* failed; the simulation is invoked only in test mode with the flag set, and
\* then for every charge the processor processed.
C9_SimulationNeverFails ==
    /\ \A c \in CallsMade : IsPresentCall(c) =>
           (env.STRIPE_ENV # Prod /\ env.STRIPE_SIMULATE_CARD = True)
    /\ (Done /\ \E c \in CallsOf(last.calls) : IsPresentCall(c)) =>
           /\ last.status = 200
           /\ last.body = [reader |-> [id |-> LastProcessCall.reader,
                                       action |-> LastProcessCall.pi]]
    /\ (Done /\ last.req.path = "/api/terminal/charge" /\ last.status = 200
          /\ env.STRIPE_ENV # Prod /\ env.STRIPE_SIMULATE_CARD = True) =>
           \E c \in CallsOf(last.calls) : IsPresentCall(c)

\* The simulation failed and the charge request was answered 200
C9_Witness ==
    /\ Done /\ last.answer = Failure /\ last.status = 200
    /\ \E c \in CallsOf(last.calls) : IsPresentCall(c)

---------------------------------------------------------------------------
(* C10 *)

\* C10: the intent-status response reports effective_status "succeeded" exactly
\* when the intent's status or its latest charge's status is "succeeded", and
\* the intent's own status otherwise; status is always the intent's own status.
C10_EffectiveStatus ==
    (Done /\ last.req.method = "GET" /\ last.req.path = "/api/payment_intents/:id"
       /\ last.status = 200) =>
        /\ last.body.status = last.answer.status
        /\ (last.body.effective_status = "succeeded") =
               (last.answer.status = "succeeded" \/ last.answer.charge = "succeeded")
        /\ last.body.effective_status # "succeeded" =>
               last.body.effective_status = last.answer.status

\* An intent still processing whose latest charge succeeded was reported as
\* succeeded
C10_Witness ==
    /\ Done /\ last.req.path = "/api/payment_intents/:id" /\ last.status = 200
    /\ last.answer.status = "processing" /\ last.answer.charge = "succeeded"
    /\ last.body.status = "processing" /\ last.body.effective_status = "succeeded"

---------------------------------------------------------------------------
(* C11 *)

\* The stages of a response that lie behind the authentication
PastAuth == {"limiter", "idempotency", "handler", "router"}

\* The step receives a request of client k to an /api route
Arrives(k) == arrivals'[k] = arrivals[k] + 1

\* The step is the expiry of the window of client k
Expires(k) ==
    /\ hits'[k] = 0 /\ arrivals'[k] = 0 /\ arrivals[k] > 0
    /\ \A j \in Clients \ {k} : hits'[j] = hits[j] /\ arrivals'[j] = arrivals[j]
    /\ UNCHANGED <<tasks, stripe, last>>

\* C11: the stages run in the order authentication, limiter, idempotency. A
\* request changes the limiter's counters only if it is a request to an /api
\* route with a valid credential that reaches the limiter, and then it adds one
\* to its own client's count; a request answered 401 or 500 by the
\* authentication changes no counter, starts no charge and calls no processor,
\* whatever its other headers; a request to /health changes no counter. A
\* request is answered by the idempotency stage only after it was counted and
\* found within the limit.
C11_StageOrderAndFrame ==
    [][/\ hits' # hits =>
             \/ \E k \in Clients : Expires(k)
             \/ \E k \in Clients :
                    /\ Arrives(k)
                    /\ hits'[k] = hits[k] + 1
                    /\ \A j \in Clients \ {k} : hits'[j] = hits[j]
                    /\ \/ /\ UNCHANGED tasks
                          /\ keyGenerator(last'.req) = k
                          /\ Mounted(last'.req.path)
                          /\ PresentsValidCredential(last'.req)
                          /\ last'.stage \in PastAuth
                       \/ \E s \in Slots :
                              /\ tasks[s].pc = "idle" /\ tasks'[s].pc # "idle"
                              /\ keyGenerator(tasks'[s].req) = k
                              /\ Mounted(tasks'[s].req.path)
                              /\ PresentsValidCredential(tasks'[s].req)
       /\ \A k \in Clients :
             (Arrives(k) /\ UNCHANGED tasks) =>
                 /\ last'.stage = "auth" =>
                        /\ UNCHANGED <<hits, stripe>>
                        /\ last'.status \in {401, 500}
                        /\ last'.calls = <<>>
                        /\ ~hasValidKey(Presented(last'.req)) \/ NotConfigured
                 /\ last'.stage \in PastAuth =>
                        /\ hits'[k] = hits[k] + 1
                        /\ PresentsValidCredential(last'.req)
                 /\ last'.stage = "limiter" => hits'[k] > limit
                 /\ last'.stage \in {"idempotency", "handler", "router"} =>
                        hits'[k] <= limit
       /\ (last' # last /\ last'.req.path = "/health") =>
             UNCHANGED <<hits, arrivals, tasks, stripe>>]_vars

\* A request without a valid credential and without the idempotency header was
\* answered 401 after its client's counted requests went over the limit, and
\* the count stayed where it was
C11_Witness ==
    /\ Done /\ last.stage = "auth" /\ last.status = 401
    /\ last.req.method = "POST" /\ last.req.idem = Undefined
    /\ \E k \in Clients :
           /\ keyGenerator(last.req) = k
           /\ hits[k] = limit
           /\ arrivals[k] = limit + 1

=============================================================================
